---- MODULE Spec2Model ----
(***************************************************************************)
(* Group of paper.js: the children list, the cached list of clip items,    *)
(* and the draw of a clipped group through a temporary canvas.             *)
(*                                                                         *)
(* The file that defines Group holds two definitions of it, each assigned  *)
(* to this.Group; the later one (initialize .. draw with                   *)
(* CanvasProvider.getCanvas / returnCanvas) replaces the earlier one and   *)
(* is the one modelled here.  Item (addChildren, removeChild, setClipMask, *)
(* Item._changed, Item.draw) and CanvasProvider are not part of the        *)
(* sources at hand; they are modelled from the specification.              *)
(*                                                                         *)
(* Spec is the scene graph under the calls of a script.  SpecDraw is the   *)
(* draw of any scene graph Spec can build: draw runs to its end before a   *)
(* script goes on, so the two are kept apart.                              *)
(***************************************************************************)
EXTENDS Integers, Sequences, FiniteSets, TLC

\* ------------------------------------------------------------------ bounds
NumNodes == 3
MaxAdd == 1
MaxCanvases == 2
NumItems == 3
MaxRemove == 2
MaxLen == 3
StackLimit == 3

\* ------------------------------------------------------------------ nodes
\* The items of the project: the odd ones are Groups, the even ones are
\* leaf items (paths, texts).
Nodes == 1..NumNodes
Groups == {n \in Nodes : n % 2 = 1}
Leaves == Nodes \ Groups
NoParent == 0

\* ChangeFlag set
ChangeFlags == {"GEOMETRY", "STYLE", "HIERARCHY", "CLIPPING"}

VARIABLES
    children,     \* Group#_children: the ordered children of every group
    parent,       \* Item#_parent, NoParent when the item is in no group
    clipMask,     \* Item#_clipMask
    clipItems,    \* Group#_clipItems: [present, items]; absent after delete
    ret,          \* the last call made by the script and what it returned
    stack,        \* the activations of Group#draw, the innermost one last
    pool,         \* CanvasProvider: the size of every canvas made, and the ones handed out
    status,       \* "idle", "drawing", "returned" or "aborted" (an error left draw)
    log,          \* what the running draw has done so far, in order
    paramOffset,  \* param.offset
    everAborted,  \* an error has left some draw since the start
    cachedBounds, \* Item#_bounds is cached (TRUE) or absent (FALSE), for every item
    base,         \* Base.splice / Base.equals: the list, the _index of every
                  \* entry, and the last call with what it returned
    text          \* a PointText: its _point, the point it was made with and
                  \* the matrices it was transformed by since, in order

treeVars == <<children, parent, clipMask, clipItems>>
drawVars == <<stack, pool, status, log, paramOffset, everAborted>>
auxVars == <<cachedBounds, base, text>>
vars == <<children, parent, clipMask, clipItems, ret, stack, pool, status, log,
          paramOffset, everAborted, cachedBounds, base, text>>

\* ------------------------------------------------------------------ helpers
Undefined == [present |-> FALSE, items |-> <<>>]
Defined(s) == [present |-> TRUE, items |-> s]

NoRet == [op |-> "none", node |-> 0, flag |-> FALSE, items |-> <<>>, error |-> FALSE]
Ret(op, n, flag, items, error) ==
    [op |-> op, node |-> n, flag |-> flag, items |-> items, error |-> error]
\* the record of a notification: the flags it carried and the items it reached
Noted(op, n, flags, reached) ==
    [op |-> op, node |-> n, flag |-> FALSE, items |-> reached, error |-> FALSE,
     flags |-> flags]

RECURSIVE SeqsUpTo(_, _)
SeqsUpTo(S, n) ==
    IF n = 0 THEN {<<>>}
    ELSE LET shorter == SeqsUpTo(S, n - 1)
         IN  shorter \cup {Append(s, x) : s \in shorter, x \in S}

Range(s) == {s[i] : i \in 1..Len(s)}

\* the item itself and its ancestors along the parent links par
RECURSIVE Chain(_, _, _)
Chain(n, par, fuel) ==
    IF n = NoParent \/ fuel = 0 THEN {}
    ELSE {n} \cup Chain(par[n], par, fuel - 1)

Ancestors(n, par) == Chain(par[n], par, NumNodes)

\* ------------------------------------------------------------------ Group
\* Group#_changed: the flags on which the cached clip items are deleted
Group_changed_OnlyClipping(flags) == "CLIPPING" \in flags
Group_changed_OnlyHierarchy(flags) == "HIERARCHY" \in flags
Group_changed_StyleToo(flags) == flags \cap {"HIERARCHY", "CLIPPING", "STYLE"} # {}
Group_changed(flags) == flags \cap {"HIERARCHY", "CLIPPING"} # {}

\* the scan of Group#_getClipItems over a children list
RECURSIVE ScanAll(_, _)
ScanAll(kids, mask) ==
    IF kids = <<>> THEN <<>>
    ELSE LET rest == ScanAll(Tail(kids), mask)
         IN  IF mask[Head(kids)] \/ Head(kids) \in Groups
             THEN <<Head(kids)>> \o rest ELSE rest
RECURSIVE ScanClipItems(_, _)
ScanClipItems(kids, mask) ==
    IF kids = <<>> THEN <<>>
    ELSE LET rest == ScanClipItems(Tail(kids), mask)
         IN  IF mask[Head(kids)] THEN <<Head(kids)>> \o rest ELSE rest

\* Group#_getClipItems: the cache after the call (the call returns its items)
GetClipItems_Rescan(cache, kids, mask) ==
    Defined(cache.items \o ScanClipItems(kids, mask))
GetClipItems(cache, kids, mask) ==
    IF ~cache.present THEN Defined(ScanClipItems(kids, mask)) ELSE cache

\* the children whose clipMask Group#setClipped sets
SetClippedTargets_All(kids) == Range(kids)
SetClippedTargets(kids) == IF kids # <<>> THEN {Head(kids)} ELSE {}

\* ------------------------------------------------------------------ Item
\* Item#_changed as the specification has it: the flags reach the item and
\* every ancestor; each group among them runs Group#_changed.
Notify(cache, start, par, flags) ==
    LET visited == Chain(start, par, NumNodes)
    IN  [g \in Groups |->
            IF g \in visited /\ Group_changed(flags) THEN Undefined ELSE cache[g]]

\* the items a notification started at start reaches, in the order it
\* reaches them: start, then its parent, and on to the item without parent
RECURSIVE Walk(_, _, _)
Walk(n, par, fuel) ==
    IF n = NoParent \/ fuel = 0 THEN <<>>
    ELSE <<n>> \o Walk(par[n], par, fuel - 1)

Visits(start, par) == Walk(start, par, NumNodes + 1)

\* Item#_changed as the specification has it, for the cached bounds: every
\* flag but STYLE deletes them, on the item and on every ancestor
BoundsChanged(flags) == flags \cap {"GEOMETRY", "HIERARCHY", "CLIPPING"} # {}
NotifyBounds(cached, start, par, flags) ==
    [n \in Nodes |->
        IF n \in Range(Visits(start, par)) /\ BoundsChanged(flags)
        THEN FALSE ELSE cached[n]]

\* ------------------------------------------------------------------ CharacterStyle
\* the setters of a CharacterStyle the model calls
StyleSetters == {"setFontSize", "setLeading", "setFont", "setFillColor"}

\* CharacterStyle#_flags: the flags named for a property, none when the
\* table has no line for it
CharacterStyle_flags_NoFont(setter) ==
    IF setter \in {"setFontSize", "setLeading"} THEN {"GEOMETRY"} ELSE {}
CharacterStyle_flags(setter) ==
    IF setter \in {"setFontSize", "setLeading", "setFont"} THEN {"GEOMETRY"} ELSE {}

\* the flags a setter of the style hands to _changed of its owner: those of
\* the table, STYLE for a property the table does not name
SetterFlags(setter) ==
    IF CharacterStyle_flags(setter) # {} THEN CharacterStyle_flags(setter) ELSE {"STYLE"}

\* the sets of flags the model notifies with
FlagSets == {{"GEOMETRY"}, {"STYLE"}, {"HIERARCHY"}, {"CLIPPING"}, {"GEOMETRY", "STYLE"}}

\* one addChild of addChildren: st = [children, parent, clipItems, error]
AddChild_NoDetach(st, g, n) ==
    IF st.error THEN st
    ELSE IF n = g \/ n \in Chain(st.parent[g], st.parent, NumNodes)
    THEN [st EXCEPT !.error = TRUE]
    ELSE LET par == [st.parent EXCEPT ![n] = g]
         IN  [children  |-> [st.children EXCEPT ![g] = Append(@, n)],
              parent    |-> par,
              clipItems |-> [c \in Groups |->
                                IF c \in Chain(n, par, NumNodes) THEN Undefined
                                ELSE st.clipItems[c]],
              error     |-> FALSE]
AddChild_Reparent(st, g, n) ==
    IF st.error THEN st
    ELSE IF n = g \/ n \in Chain(st.parent[g], st.parent, NumNodes)
    THEN [st EXCEPT !.error = TRUE]
    ELSE LET par == [st.parent EXCEPT ![n] = g]
             old == st.parent[n]
             left == [c \in Groups |->
                         IF c = old THEN SelectSeq(st.children[c], LAMBDA x : x # n)
                         ELSE st.children[c]]
         IN  [children  |-> [left EXCEPT ![g] = Append(@, n)],
              parent    |-> par,
              clipItems |-> [c \in Groups |->
                                IF c \in Chain(n, par, NumNodes) \cup Chain(old, st.parent, NumNodes)
                                THEN Undefined ELSE st.clipItems[c]],
              error     |-> FALSE]
AddChild(st, g, n) ==
    IF st.error THEN st
    ELSE IF st.parent[n] # NoParent \/ n = g \/ n \in Ancestors(g, st.parent)
    THEN [st EXCEPT !.error = TRUE]
    ELSE LET par == [st.parent EXCEPT ![n] = g]
         IN  [children  |-> [st.children EXCEPT ![g] = Append(@, n)],
              parent    |-> par,
              clipItems |-> Notify(st.clipItems, n, par, {"HIERARCHY"}),
              error     |-> FALSE]

RECURSIVE AddAll(_, _, _)
AddAll(st, g, items) ==
    IF items = <<>> THEN st
    ELSE AddAll(AddChild(st, g, Head(items)), g, Tail(items))

RemoveAt(s, i) == SubSeq(s, 1, i - 1) \o SubSeq(s, i + 1, Len(s))

IndexOf(s, x) == CHOOSE i \in 1..Len(s) : s[i] = x

\* ------------------------------------------------------------------ geometry
\* Coordinates are held in units of 1/Unit, so that fractional bounds exist.
Unit == 2
Floor(v) == (v \div Unit) * Unit
Ceil(v) == -Floor(-v)

Origin == <<0, 0>>

\* the rectangles getStrokeBounds() returns in the model: one of zero width,
\* one of zero height, and two that ask for a canvas of the same size, one
\* with whole coordinates (1, 2, 3, 2) and one with fractional ones
\* (1.5, -0.5, 2.5, 1.5)
BoundsSet ==
    { [x |-> 3, y |-> 1, width |-> 0, height |-> 4],
      [x |-> 2, y |-> 2, width |-> 4, height |-> 0],
      [x |-> 2, y |-> 4, width |-> 6, height |-> 4],
      [x |-> 3, y |-> -1, width |-> 5, height |-> 3] }

\* every rectangle with corner coordinates up to MaxCoord and sides up to
\* MaxSide, in units of 1/Unit: whole and fractional, left and right of zero
MaxCoord == 3
MaxSide == 4
WideBounds ==
    [x : -MaxCoord..MaxCoord, y : -MaxCoord..MaxCoord,
     width : 0..MaxSide, height : 0..MaxSide]

\* ------------------------------------------------------------------ numbers
\* A number of the program is a binary floating-point number: the result of
\* an addition, a subtraction or a multiplication is rounded to the nearest
\* number the format holds, to the even one of two that are as near.  The
\* model keeps Precision significant bits where a double keeps 53, and whole
\* numbers only.
Precision == 3
RECURSIVE Pow2(_)
Pow2(n) == IF n = 0 THEN 1 ELSE 2 * Pow2(n - 1)
\* the distance between neighbouring numbers of the format around a >= 0
RECURSIVE Ulp(_, _)
Ulp(a, u) == IF a < Pow2(Precision) * u THEN u ELSE Ulp(a, 2 * u)
RoundTo(a, u) ==
    LET q == a \div u
        r == a % u
    IN  IF 2 * r < u \/ (2 * r = u /\ q % 2 = 0) THEN q * u ELSE (q + 1) * u
Fl(v) == IF v >= 0 THEN RoundTo(v, Ulp(v, 1)) ELSE -RoundTo(-v, Ulp(-v, 1))

\* ------------------------------------------------------------------ Point, Matrix
\* the points a script makes a PointText with or sets it to
MaxText == 10
TextPoints == {p \in (0..MaxText) \X (0..1) : Fl(p[1]) = p[1]}

\* point.subtract(other)
Point_subtract(p, q) == <<Fl(p[1] - q[1]), Fl(p[2] - q[2])>>

\* an affine transform: x' = a x + b y + tx, y' = c x + d y + ty
Matrix(a, b, c, d, tx, ty) == [a |-> a, b |-> b, c |-> c, d |-> d, tx |-> tx, ty |-> ty]
Translation(delta) == Matrix(1, 0, 0, 1, delta[1], delta[2])
\* the matrices a script transforms with: a shift, a scaling by two and a
\* quarter turn
Matrices == {Translation(<<1, 0>>), Matrix(2, 0, 0, 2, 0, 0), Matrix(0, -1, 1, 0, 0, 0)}
\* matrix._transformPoint(point, dest)
Matrix_transformPoint(m, p) ==
    <<Fl(Fl(Fl(p[1] * m.a) + Fl(p[2] * m.b)) + m.tx),
      Fl(Fl(Fl(p[1] * m.c) + Fl(p[2] * m.d)) + m.ty)>>
RECURSIVE ApplyAll(_, _)
ApplyAll(p, ms) ==
    IF ms = <<>> THEN p ELSE ApplyAll(Matrix_transformPoint(Head(ms), p), Tail(ms))

NoText == [point |-> Origin, first |-> Origin, applied |-> <<>>]
MaxCalls == 2

\* ------------------------------------------------------------------ CanvasProvider
\* Canvases are numbered from 1 in the order they are made; pool.size[c] is
\* the size canvas c was made with, pool.live the canvases handed out and not
\* yet returned.  Target is the canvas of the view the top-level draw paints.
Target == 0
NoCanvas == -1
EmptyPool == [size |-> <<>>, live |-> {}]

FreeOfSize(p, size) ==
    {c \in 1..Len(p.size) : c \notin p.live /\ p.size[c] = size}

Min(S) == CHOOSE x \in S : \A y \in S : x <= y

\* CanvasProvider.getCanvas(size): a returned canvas of that size if there is
\* one, a new canvas otherwise
GetCanvas(p, size) ==
    IF FreeOfSize(p, size) # {}
    THEN LET c == Min(FreeOfSize(p, size))
         IN  [canvas |-> c, pool |-> [p EXCEPT !.live = @ \cup {c}]]
    ELSE LET c == Len(p.size) + 1
         IN  [canvas |-> c,
              pool |-> [size |-> Append(p.size, size), live |-> p.live \cup {c}]]

\* CanvasProvider.returnCanvas(canvas)
ReturnCanvas(p, c) == [p EXCEPT !.live = @ \ {c}]

\* ------------------------------------------------------------------ Base
\* Base.splice works on a list whose entries keep their position in _index.
\* The entries are the objects 1..NumItems; base.index[it] is it._index,
\* counted from 0 as in the list, NoIndex when the property is absent.  An
\* index argument of NoIndex stands for undefined.
Items == 1..NumItems
NoIndex == -1
NoCall == [op |-> "none"]
NoBase == [list |-> <<>>, index |-> [it \in Items |-> NoIndex], call |-> NoCall]

Max(S) == CHOOSE x \in S : \A y \in S : x >= y

\* for (var i = 0; i < amount; i++) items[i]._index = index + i
SetIndices(index, items, at) ==
    [it \in Items |->
        LET where == {i \in 1..Len(items) : items[i] = it}
        IN  IF where = {} THEN index[it] ELSE at + Max(where) - 1]

\* for (var i = 0, l = removed.length; i < l; i++) delete removed[i]._index
DeleteIndices(index, removed, items) ==
    [it \in Items |-> IF it \in Range(removed) THEN NoIndex ELSE index[it]]

\* for (var i = index + amount, l = list.length; i < l; i++) list[i]._index = i
AdjustIndices(index, list, from) ==
    [it \in Items |->
        LET where == {i \in from..(Len(list) - 1) : list[i + 1] = it}
        IN  IF where = {} THEN index[it] ELSE Max(where)]

\* Array#splice(index, remove, ...items) for 0 <= index <= length: the
\* count removed is clamped to what is left from index on
ArraySplice(list, at, remove, items) ==
    LET count == IF remove < 0 THEN 0
                 ELSE IF remove > Len(list) - at THEN Len(list) - at ELSE remove
    IN  [removed |-> SubSeq(list, at + 1, at + count),
         list |-> SubSeq(list, 1, at) \o items \o SubSeq(list, at + count + 1, Len(list))]

\* Base.splice(list, items, index, remove): the list and the indices after
\* the call, and what it returns
Base_splice(b, items, index, remove) ==
    LET append == index = NoIndex
        at == IF append THEN Len(b.list) ELSE index
        set == SetIndices(b.index, items, at)
    IN  IF append
        THEN [list |-> b.list \o items, index |-> set, removed |-> <<>>]
        ELSE LET sp == ArraySplice(b.list, at, remove, items)
                 del == DeleteIndices(set, sp.removed, items)
             IN  [list |-> sp.list,
                  index |-> AdjustIndices(del, sp.list, at + Len(items)),
                  removed |-> sp.removed]

\* Base.equals on two arrays of numbers.  An array is [id, elems]: two
\* arrays are the same object (==) exactly when they have the same id.  The
\* result is "true", "false", or "RangeError" when the calls nest deeper
\* than StackLimit.
Prims == {0, 1}
Arrays(id) == {[id |-> id, elems |-> e] : e \in SeqsUpTo(Prims, MaxLen)}

RECURSIVE Base_equals(_, _, _)
RECURSIVE EqualsLoop(_, _, _, _)
\* for (var i = 0, l = obj1.length; i < l; i++)
\*     if (!Base.equals(obj1, obj2)) return false;
\* return true;
EqualsLoop(obj1, obj2, i, depth) ==
    IF i >= Len(obj1.elems) THEN "true"
    ELSE LET r == Base_equals(obj1, obj2, depth + 1)
         IN  IF r = "true" THEN EqualsLoop(obj1, obj2, i + 1, depth) ELSE r

Base_equals(obj1, obj2, depth) ==
    IF depth > StackLimit THEN "RangeError"
    ELSE IF obj1.id = obj2.id THEN "true"
    ELSE IF Len(obj1.elems) # Len(obj2.elems) THEN "false"
    ELSE EqualsLoop(obj1, obj2, 0, depth)

\* ------------------------------------------------------------------ state
\* The state after construction: every item made with no children, no draw
\* running, no canvas made yet.
InitDrawVars ==
    /\ stack = <<>>
    /\ pool = EmptyPool
    /\ status = "idle"
    /\ log = <<>>
    /\ paramOffset = Origin
    /\ everAborted = FALSE

InitAuxVars ==
    /\ cachedBounds = [n \in Nodes |-> FALSE]
    /\ base = NoBase
    /\ text = NoText

Init ==
    /\ children = [g \in Groups |-> <<>>]
    /\ parent = [n \in Nodes |-> NoParent]
    /\ clipMask = [n \in Nodes |-> FALSE]
    /\ clipItems = [g \in Groups |-> Undefined]
    /\ ret = NoRet
    /\ InitDrawVars
    /\ InitAuxVars

\* group.addChildren(items); the flag of the record tells that one of the
\* items had a parent when the call was made
AddChildren(g, items) ==
    LET st == AddAll([children |-> children, parent |-> parent,
                      clipItems |-> clipItems, error |-> FALSE], g, items)
    IN  /\ children' = st.children
        /\ parent' = st.parent
        /\ clipItems' = st.clipItems
        /\ ret' = Ret("addChildren", g, \E k \in 1..Len(items) : parent[items[k]] # NoParent,
                       <<>>, st.error)
        /\ UNCHANGED <<auxVars, clipMask, drawVars>>

\* group.removeChild(item)
RemoveChild(g, n) ==
    /\ IF parent[n] = g
       THEN /\ children' = [children EXCEPT ![g] = RemoveAt(@, IndexOf(@, n))]
            /\ parent' = [parent EXCEPT ![n] = NoParent]
            /\ clipItems' = Notify(clipItems, n, parent, {"HIERARCHY"})
       ELSE UNCHANGED <<children, parent, clipItems>>
    /\ ret' = Ret("removeChild", g, FALSE, <<>>, FALSE)
    /\ UNCHANGED <<auxVars, clipMask, drawVars>>

\* item.setClipMask(flag)
SetClipMask(n, flag) ==
    /\ clipMask' = [clipMask EXCEPT ![n] = flag]
    /\ clipItems' = Notify(clipItems, n, parent, {"CLIPPING"})
    /\ ret' = Ret("setClipMask", n, FALSE, <<>>, FALSE)
    /\ UNCHANGED <<auxVars, children, parent, drawVars>>

\* group._getClipItems(); ret.flag tells whether the call scanned the children
CallGetClipItems(g) ==
    LET cache == GetClipItems(clipItems[g], children[g], clipMask)
    IN  /\ clipItems' = [clipItems EXCEPT ![g] = cache]
        /\ ret' = Ret("_getClipItems", g, ~clipItems[g].present, cache.items, FALSE)
        /\ UNCHANGED <<auxVars, children, parent, clipMask, drawVars>>

\* group.isClipped()
IsClipped_FirstOnly(g) ==
    LET cache == GetClipItems(clipItems[g], children[g], clipMask)
    IN  /\ clipItems' = [clipItems EXCEPT ![g] = cache]
        /\ ret' = Ret("isClipped", g, children[g] # <<>> /\ clipMask[children[g][1]],
                      <<>>, FALSE)
        /\ UNCHANGED <<auxVars, children, parent, clipMask, drawVars>>
IsClipped(g) ==
    LET cache == GetClipItems(clipItems[g], children[g], clipMask)
    IN  /\ clipItems' = [clipItems EXCEPT ![g] = cache]
        /\ ret' = Ret("isClipped", g, Len(cache.items) # 0, <<>>, FALSE)
        /\ UNCHANGED <<auxVars, children, parent, clipMask, drawVars>>

\* group.setClipped(clipped)
SetClipped(g, clipped) ==
    LET targets == SetClippedTargets(children[g])
    IN  /\ clipMask' = [n \in Nodes |-> IF n \in targets THEN clipped ELSE clipMask[n]]
        /\ clipItems' = IF targets = {} THEN clipItems
                        ELSE Notify(clipItems, children[g][1], parent, {"CLIPPING"})
        /\ ret' = Ret("setClipped", g, clipped, <<>>, FALSE)
        /\ UNCHANGED <<auxVars, children, parent, drawVars>>

\* ------------------------------------------------------------------ Group#draw
\* One activation of Group#draw(ctx, param): the group, the rectangle its
\* getStrokeBounds() returns, the place in the code, the loop index, and the
\* locals ctx, parentCtx, tempCanvas and itemOffset.  prevOffset is what the
\* activation has stored in prevOffset = param.offset; the code declares no
\* such local, and nothing reads the value again.
NewFrame(g, b, ctx) ==
    [node |-> g, bounds |-> b, pc |-> "start", i |-> 1, ctx |-> ctx,
     parentCtx |-> NoCanvas, tempCanvas |-> NoCanvas, itemOffset |-> Origin,
     prevOffset |-> Origin]

Top == stack[Len(stack)]
SetTop(fr) == [stack EXCEPT ![Len(stack)] = fr]

\* one line of the record of a draw; at and size are the place and the size
\* the call was made with, where it has them
EntryAt(ev, by, item, ctx, pass, at, size) ==
    [ev |-> ev, by |-> by, item |-> item, ctx |-> ctx, pass |-> pass,
     at |-> at, size |-> size]
Entry(ev, by, item, ctx, pass) == EntryAt(ev, by, item, ctx, pass, Origin, Origin)

\* if (!bounds.width || !bounds.height) return;
IsDegenerate_WidthOnly(b) == b.width = 0
IsDegenerate(b) == b.width = 0 \/ b.height = 0

\* bounds.getTopLeft().floor()
ItemOffset_Truncate(b) ==
    <<IF b.x >= 0 THEN Floor(b.x) ELSE Ceil(b.x), IF b.y >= 0 THEN Floor(b.y) ELSE Ceil(b.y)>>
ItemOffset(b) == <<Floor(b.x), Floor(b.y)>>

\* bounds.getSize().ceil().add(Size.create(1, 1))
CanvasSize_NoPadding(b) == <<Ceil(b.width), Ceil(b.height)>>
CanvasSize(b) == <<Ceil(b.width) + Unit, Ceil(b.height) + Unit>>

\* tempCanvas = CanvasProvider.getCanvas(...): the canvas stays handed out
\* while the draw goes on
TakeCanvas_NotKept(p, size) ==
    [canvas |-> GetCanvas(p, size).canvas,
     pool |-> ReturnCanvas(GetCanvas(p, size).pool, GetCanvas(p, size).canvas)]
TakeCanvas(p, size) == GetCanvas(p, size)

\* the item the loops take at index i: for (_i = 0; _i < _len; _i++) item = list[_i]
ItemAt_Reversed(list, i) == list[Len(list) + 1 - i]
ItemAt(list, i) == list[i]

\* if (!item._clipMask) Item.draw(item, ctx, param)
DrawsRegular_OnlyMasks(item, mask) == mask[item]
DrawsRegular_All(item, mask) == TRUE
DrawsRegular(item, mask) == ~mask[item]

\* if (tempCanvas) { ...; CanvasProvider.returnCanvas(tempCanvas); }
GiveBack_Never(p, fr) == p
GiveBack(p, fr) ==
    IF fr.tempCanvas # NoCanvas THEN ReturnCanvas(p, fr.tempCanvas) ELSE p

\* ctx.save(); ctx.translate(-itemOffset.x, -itemOffset.y);
\* this._matrix.applyToContext(ctx), on the context of the canvas just taken
OpeningCalls(g, canvas, offset) ==
    <<Entry("save", g, 0, canvas, "begin"),
      EntryAt("translate", g, 0, canvas, "begin", <<-offset[1], -offset[2]>>, Origin),
      Entry("applyToContext", g, g, canvas, "begin")>>

\* parentCtx.drawImage(ctx.canvas, itemOffset.x, itemOffset.y); ctx.restore();
\* CanvasProvider.returnCanvas(tempCanvas)
ClosingCalls(fr) ==
    <<EntryAt("drawImage", fr.node, fr.ctx, fr.parentCtx, "end", fr.itemOffset, Origin),
      Entry("restore", fr.node, 0, fr.ctx, "end"),
      Entry("returnCanvas", fr.node, fr.tempCanvas, fr.ctx, "end")>>

\* the list the loop of the frame runs over
PassList(fr) ==
    IF fr.pc = "clip" THEN clipItems[fr.node].items ELSE children[fr.node]

\* the frame is in one of its loops and has an item left to look at
InLoop_OffByOne(fr) == fr.pc \in {"clip", "regular"} /\ fr.i < Len(PassList(fr))
InLoop(fr) == fr.pc \in {"clip", "regular"} /\ fr.i <= Len(PassList(fr))
LoopItem(fr) == ItemAt(PassList(fr), fr.i)
\* Item.draw is called on the item the loop is at
CallsDraw(fr) ==
    /\ InLoop(fr)
    /\ fr.pc = "regular" => DrawsRegular(LoopItem(fr), clipMask)

Return ==
    /\ stack' = SubSeq(stack, 1, Len(stack) - 1)
    /\ status' = IF Len(stack) = 1 THEN "returned" ELSE "drawing"

\* nothing in Group#draw catches: an error leaves every activation at once
Throw ==
    /\ stack' = <<>>
    /\ status' = "aborted"
    /\ everAborted' = TRUE

\* view or script: group.draw(ctx, param) on the canvas of the view
Draw(g, b) ==
    /\ status = "idle"
    /\ stack' = <<NewFrame(g, b, Target)>>
    /\ status' = "drawing"
    /\ ret' = Ret("draw", g, FALSE, <<>>, FALSE)
    /\ UNCHANGED <<auxVars, treeVars, pool, log, paramOffset, everAborted>>

\* draw of a group without clip items: on to the loop over the children
DrawBeginUnclipped ==
    /\ status = "drawing" /\ Top.pc = "start"
    /\ LET fr == Top
           cache == GetClipItems(clipItems[fr.node], children[fr.node], clipMask)
       IN  /\ Len(cache.items) = 0
           /\ clipItems' = [clipItems EXCEPT ![fr.node] = cache]
           /\ stack' = SetTop([fr EXCEPT !.pc = "regular", !.i = 1])
    /\ UNCHANGED <<auxVars, children, parent, clipMask, ret, pool, status, log,
                   paramOffset, everAborted>>

\* draw of a clipped group whose stroke bounds are empty: return
DrawBeginDegenerate ==
    /\ status = "drawing" /\ Top.pc = "start"
    /\ LET fr == Top
           cache == GetClipItems(clipItems[fr.node], children[fr.node], clipMask)
       IN  /\ Len(cache.items) # 0
           /\ IsDegenerate(fr.bounds)
           /\ clipItems' = [clipItems EXCEPT ![fr.node] = cache]
           /\ Return
    /\ UNCHANGED <<auxVars, children, parent, clipMask, ret, pool, log, paramOffset,
                   everAborted>>

\* draw of a clipped group: take a canvas, draw onto it from now on
DrawBeginClipped ==
    /\ status = "drawing" /\ Top.pc = "start"
    /\ LET fr == Top
           cache == GetClipItems(clipItems[fr.node], children[fr.node], clipMask)
           size == CanvasSize(fr.bounds)
           got == TakeCanvas(pool, size)
       IN  /\ Len(cache.items) # 0
           /\ ~IsDegenerate(fr.bounds)
           /\ FreeOfSize(pool, size) # {} \/ Len(pool.size) < MaxCanvases
           /\ clipItems' = [clipItems EXCEPT ![fr.node] = cache]
           /\ paramOffset' = ItemOffset(fr.bounds)
           /\ pool' = got.pool
           /\ stack' = SetTop([fr EXCEPT !.pc = "clip", !.i = 1,
                                         !.prevOffset = paramOffset,
                                         !.parentCtx = fr.ctx,
                                         !.itemOffset = ItemOffset(fr.bounds),
                                         !.tempCanvas = got.canvas,
                                         !.ctx = got.canvas])
           /\ log' = Append(log, EntryAt("getCanvas", fr.node, got.canvas, got.canvas,
                                      IF FreeOfSize(pool, size) # {} THEN "reused" ELSE "made",
                                      ItemOffset(fr.bounds), size))
                      \o OpeningCalls(fr.node, got.canvas, ItemOffset(fr.bounds))
    /\ UNCHANGED <<auxVars, children, parent, clipMask, ret, status, everAborted>>

\* draw of a clipped group: no returned canvas fits and no new one can be made
DrawBeginNoCanvas ==
    /\ status = "drawing" /\ Top.pc = "start"
    /\ LET fr == Top
           cache == GetClipItems(clipItems[fr.node], children[fr.node], clipMask)
       IN  /\ Len(cache.items) # 0
           /\ ~IsDegenerate(fr.bounds)
           /\ FreeOfSize(pool, CanvasSize(fr.bounds)) = {}
           /\ clipItems' = [clipItems EXCEPT ![fr.node] = cache]
           /\ paramOffset' = ItemOffset(fr.bounds)
           /\ Throw
    /\ UNCHANGED <<auxVars, children, parent, clipMask, ret, pool, log>>

\* Item.draw(item, ctx, param) on a leaf item: it paints onto ctx
DrawLeaf ==
    /\ status = "drawing" /\ CallsDraw(Top)
    /\ LET fr == Top
       IN  /\ LoopItem(fr) \in Leaves
           /\ log' = Append(log, Entry("Item.draw", fr.node, LoopItem(fr), fr.ctx, fr.pc))
           /\ stack' = SetTop([fr EXCEPT !.i = @ + 1])
    /\ UNCHANGED <<auxVars, treeVars, ret, pool, status, paramOffset, everAborted>>

\* Item.draw(item, ctx, param) on a leaf item: the leaf raises an error
DrawLeafThrows ==
    /\ status = "drawing" /\ CallsDraw(Top)
    /\ LET fr == Top
       IN  /\ LoopItem(fr) \in Leaves
           /\ log' = Append(log, Entry("Item.draw", fr.node, LoopItem(fr), fr.ctx, fr.pc))
           /\ Throw
    /\ UNCHANGED <<auxVars, treeVars, ret, pool, paramOffset>>

\* Item.draw(item, ctx, param) on a group: Group#draw runs within the loop
DrawGroupChild(b) ==
    /\ status = "drawing" /\ CallsDraw(Top)
    /\ LET fr == Top
       IN  /\ LoopItem(fr) \in Groups
           /\ log' = Append(log, Entry("Item.draw", fr.node, LoopItem(fr), fr.ctx, fr.pc))
           /\ stack' = Append(SetTop([fr EXCEPT !.i = @ + 1]),
                              NewFrame(LoopItem(fr), b, fr.ctx))
    /\ UNCHANGED <<auxVars, treeVars, ret, pool, status, paramOffset, everAborted>>

\* the loop over the children passes a clip mask
DrawSkipItem ==
    /\ status = "drawing" /\ InLoop(Top) /\ ~CallsDraw(Top)
    /\ stack' = SetTop([Top EXCEPT !.i = @ + 1])
    /\ UNCHANGED <<auxVars, treeVars, ret, pool, status, log, paramOffset, everAborted>>

\* ctx.globalCompositeOperation = this.compositing, after the last clip item
DrawClipDone ==
    /\ status = "drawing" /\ Top.pc = "clip" /\ ~InLoop(Top)
    /\ log' = Append(log, Entry("compositing", Top.node, 0, Top.ctx, "clip"))
    /\ stack' = SetTop([Top EXCEPT !.pc = "regular", !.i = 1])
    /\ UNCHANGED <<auxVars, treeVars, ret, pool, status, paramOffset, everAborted>>

\* after the last child: draw the canvas onto parentCtx and return it
DrawFinish ==
    /\ status = "drawing" /\ Top.pc = "regular" /\ ~InLoop(Top)
    /\ pool' = GiveBack(pool, Top)
    /\ log' = IF Top.tempCanvas # NoCanvas THEN log \o ClosingCalls(Top) ELSE log
    /\ Return
    /\ UNCHANGED <<auxVars, treeVars, ret, paramOffset, everAborted>>

\* the caller of the top-level draw goes on; param and the record of the
\* draw are dropped
Resume ==
    /\ status \in {"returned", "aborted"}
    /\ status' = "idle"
    /\ log' = <<>>
    /\ paramOffset' = Origin
    /\ UNCHANGED <<auxVars, treeVars, ret, stack, pool, everAborted>>

\* ------------------------------------------------------------------ notifications
\* item.getBounds(): the bounds are computed and cached
GetBounds(n) ==
    /\ cachedBounds' = [cachedBounds EXCEPT ![n] = TRUE]
    /\ ret' = Ret("getBounds", n, FALSE, <<>>, FALSE)
    /\ UNCHANGED <<treeVars, drawVars, base, text>>

\* item._changed(flags)
Changed(n, flags) ==
    /\ clipItems' = Notify(clipItems, n, parent, flags)
    /\ cachedBounds' = NotifyBounds(cachedBounds, n, parent, flags)
    /\ ret' = Noted("_changed", n, flags, Visits(n, parent))
    /\ UNCHANGED <<children, parent, clipMask, drawVars, base, text>>

\* a setter of the style of a text item: the style notifies its owner
SetStyle(n, setter) ==
    /\ clipItems' = Notify(clipItems, n, parent, SetterFlags(setter))
    /\ cachedBounds' = NotifyBounds(cachedBounds, n, parent, SetterFlags(setter))
    /\ ret' = Noted(setter, n, SetterFlags(setter), Visits(n, parent))
    /\ UNCHANGED <<children, parent, clipMask, drawVars, base, text>>

\* ------------------------------------------------------------------ PointText
\* _transform: function(matrix): matrix._transformPoint(this._point, this._point)
PointText_transform(point, matrix) == Matrix_transformPoint(matrix, point)

\* item.transform(matrix): the item hands the matrix to its _transform
Transform(m) ==
    /\ Len(text.applied) < MaxCalls
    /\ text' = [text EXCEPT !.point = PointText_transform(text.point, m),
                            !.applied = Append(@, m)]
    /\ ret' = Ret("transform", 0, FALSE, <<>>, FALSE)
    /\ UNCHANGED <<treeVars, drawVars, cachedBounds, base>>

\* setPoint(point): this.translate(Point.read(arguments).subtract(this._point));
\* translate(delta) is transform with the matrix of the shift by delta
SetPoint(p) ==
    /\ Len(text.applied) < MaxCalls
    /\ LET delta == Point_subtract(p, text.point)
       IN  text' = [text EXCEPT !.point = PointText_transform(text.point, Translation(delta)),
                               !.applied = Append(@, Translation(delta))]
    /\ ret' = Ret("setPoint", 0, FALSE, p, FALSE)
    /\ UNCHANGED <<treeVars, drawVars, cachedBounds, base>>

\* getPoint(): LinkedPoint.create(this, 'setPoint', this._point.x, this._point.y)
GetPoint ==
    /\ ret' = Ret("getPoint", 0, FALSE, text.point, FALSE)
    /\ UNCHANGED <<treeVars, drawVars, auxVars>>

\* ------------------------------------------------------------------ Base calls
\* Base.splice(list, items, index, remove) on the list of the model.  items
\* is an array or null (the empty sequence), index is between 0 and the
\* length of the list, or undefined (NoIndex) to append.  An item is put in
\* only while it is not in the list, or when this very call takes it out.
Splice(items, index, remove) ==
    /\ index = NoIndex \/ index \in 0..Len(base.list)
    /\ \A j, k \in 1..Len(items) : j # k => items[j] # items[k]
    /\ \A k \in 1..Len(items) :
          \/ items[k] \notin Range(base.list)
          \/ /\ index # NoIndex
             /\ items[k] \in Range(ArraySplice(base.list, index, remove, items).removed)
    /\ LET r == Base_splice(base, items, index, remove)
       IN  base' = [list |-> r.list, index |-> r.index,
                    call |-> [op |-> "splice", removed |-> r.removed]]
    /\ UNCHANGED <<treeVars, ret, drawVars, cachedBounds, text>>

\* Base.equals(obj1, obj2) on two arrays
Equals(obj1, obj2) ==
    /\ base' = [base EXCEPT !.call = [op |-> "equals", obj1 |-> obj1, obj2 |-> obj2,
                                      value |-> Base_equals(obj1, obj2, 1)]]
    /\ UNCHANGED <<treeVars, ret, drawVars, cachedBounds, text>>

\* ------------------------------------------------------------------ specifications
\* no item is its own ancestor
Acyclic(par) == \A n \in Nodes : n \notin Ancestors(n, par)

\* Any scene graph the calls of Spec build, with no draw made yet.
InitDraw ==
    /\ \E par \in [Nodes -> Groups \cup {NoParent}], ord \in Permutations(Nodes),
          mask \in [Nodes -> BOOLEAN], present \in [Groups -> BOOLEAN] :
          /\ Acyclic(par)
          /\ parent = par
          /\ clipMask = mask
          /\ children = [g \in Groups |->
                            SelectSeq([k \in 1..NumNodes |-> ord[k]],
                                      LAMBDA n : par[n] = g)]
          /\ clipItems = [g \in Groups |->
                            IF present[g]
                            THEN Defined(ScanClipItems(children[g], mask))
                            ELSE Undefined]
    /\ ret = NoRet
    /\ InitDrawVars
    /\ InitAuxVars

NextDraw ==
    \/ \E g \in Groups, b \in BoundsSet : Draw(g, b)
    \/ DrawBeginUnclipped
    \/ DrawBeginDegenerate
    \/ DrawBeginClipped
    \/ DrawBeginNoCanvas
    \/ DrawLeaf
    \/ DrawLeafThrows
    \/ \E b \in BoundsSet : DrawGroupChild(b)
    \/ DrawSkipItem
    \/ DrawClipDone
    \/ DrawFinish
    \/ Resume

\* The draws of a scene graph that stays as it is.
SpecDraw == InitDraw /\ [][NextDraw]_vars

\* One draw of a clipped group, a group with one child that is a clip mask,
\* with any rectangle of WideBounds for its stroke bounds.
InitSurface ==
    /\ children = [g \in Groups |-> IF g = 1 THEN <<2>> ELSE <<>>]
    /\ parent = [n \in Nodes |-> IF n = 2 THEN 1 ELSE NoParent]
    /\ clipMask = [n \in Nodes |-> n = 2]
    /\ clipItems = [g \in Groups |-> Undefined]
    /\ ret = NoRet
    /\ InitDrawVars
    /\ InitAuxVars

NextSurface ==
    \/ \E b \in WideBounds : Draw(1, b)
    \/ DrawBeginDegenerate
    \/ DrawBeginClipped
    \/ DrawLeaf
    \/ DrawSkipItem
    \/ DrawClipDone
    \/ DrawFinish

SpecSurface == InitSurface /\ [][NextSurface]_vars

\* The calls of a script on one PointText made with a point of TextPoints.
InitText ==
    /\ children = [g \in Groups |-> <<>>]
    /\ parent = [n \in Nodes |-> NoParent]
    /\ clipMask = [n \in Nodes |-> FALSE]
    /\ clipItems = [g \in Groups |-> Undefined]
    /\ ret = NoRet
    /\ InitDrawVars
    /\ cachedBounds = [n \in Nodes |-> FALSE]
    /\ base = NoBase
    /\ \E p \in TextPoints : text = [point |-> p, first |-> p, applied |-> <<>>]

NextText ==
    \/ \E m \in Matrices : Transform(m)
    \/ \E p \in TextPoints : SetPoint(p)
    \/ GetPoint

SpecText == InitText /\ [][NextText]_vars

\* The scene graph under the calls of a script, no draw running.
\* The notifications of a scene graph that stays as it is: any parent links
\* and any order of the children Spec can build, every leaf a clip mask.
InitNotify ==
    /\ \E par \in [Nodes -> Groups \cup {NoParent}], ord \in Permutations(Nodes),
          present \in [Groups -> BOOLEAN] :
          /\ Acyclic(par)
          /\ parent = par
          /\ clipMask = [n \in Nodes |-> n \in Leaves]
          /\ children = [g \in Groups |->
                            SelectSeq([k \in 1..NumNodes |-> ord[k]],
                                      LAMBDA n : par[n] = g)]
          /\ clipItems = [g \in Groups |->
                            IF present[g]
                            THEN Defined(ScanClipItems(children[g], clipMask))
                            ELSE Undefined]
    /\ ret = NoRet
    /\ InitDrawVars
    /\ InitAuxVars

NextNotify ==
    \/ \E n \in Nodes : GetBounds(n)
    \/ \E n \in Nodes, flags \in FlagSets : Changed(n, flags)
    \/ \E n \in Leaves, setter \in StyleSetters : SetStyle(n, setter)

SpecNotify == InitNotify /\ [][NextNotify]_vars

\* The calls of Base.splice on one list that starts empty.
NextSplice ==
    \/ \E items \in SeqsUpTo(Items, MaxAdd) : Splice(items, NoIndex, 0)
    \/ \E items \in SeqsUpTo(Items, MaxAdd), index \in 0..NumItems, remove \in 0..MaxRemove :
          Splice(items, index, remove)

SpecSplice == Init /\ [][NextSplice]_vars

\* The calls of Base.equals on an array and itself, and on two arrays that
\* are different objects.
NextEquals ==
    \/ \E obj \in Arrays(1) : Equals(obj, obj)
    \/ \E obj1 \in Arrays(1), obj2 \in Arrays(2) : Equals(obj1, obj2)

SpecEquals == Init /\ [][NextEquals]_vars

Next ==
    \/ \E g \in Groups, items \in SeqsUpTo(Nodes, MaxAdd) \ {<<>>} : AddChildren(g, items)
    \/ \E g \in Groups, n \in Nodes : RemoveChild(g, n)
    \/ \E n \in Nodes, flag \in BOOLEAN : SetClipMask(n, flag)
    \/ \E g \in Groups : CallGetClipItems(g)
    \/ \E g \in Groups : IsClipped(g)
    \/ \E g \in Groups, clipped \in BOOLEAN : SetClipped(g, clipped)

Spec == Init /\ [][Next]_vars

\* ------------------------------------------------------------------ properties
HasClipChild(g) == \E k \in 1..Len(children[g]) : clipMask[children[g][k]]
MaskedChildren(g) == SelectSeq(children[g], LAMBDA n : clipMask[n])
PlainChildren(g) == SelectSeq(children[g], LAMBDA n : ~clipMask[n])
IsPrefix(s, t) == Len(s) <= Len(t) /\ s = SubSeq(t, 1, Len(s))
ItemsOf(entries) == [k \in 1..Len(entries) |-> entries[k].item]
\* the calls of Item.draw a group has made in a pass of the running draw
Calls(g, pass) ==
    SelectSeq(log, LAMBDA e : e.ev = "Item.draw" /\ e.by = g /\ e.pass = pass)
Holding == {i \in 1..Len(stack) : stack[i].tempCanvas # NoCanvas}

\* C1: a clip-items cache that is present is the sequence of the direct
\* children of its group whose clipMask is set, in the order of the children
\* list; none of its members is a grandchild.
ClipItemsCacheExact ==
    \A g \in Groups :
        clipItems[g].present =>
            /\ clipItems[g].items = MaskedChildren(g)
            /\ \A k \in 1..Len(clipItems[g].items) : parent[clipItems[g].items[k]] = g

\* a present, non-empty cache of a group that has a masked grandchild
ClipItemsCacheWitness ==
    \E g \in Groups, n \in Nodes :
        /\ clipItems[g].present /\ Len(clipItems[g].items) >= 1
        /\ clipMask[n] /\ parent[n] \in Groups \ {g} /\ parent[parent[n]] = g

\* C2: isClipped() returns true exactly when some direct child of the group
\* has clipMask set at the time of the call, whatever was added, removed or
\* masked before.
IsClippedReflectsChildren ==
    ret.op = "isClipped" => (ret.flag <=> HasClipChild(ret.node))

\* isClipped() has returned true for a group whose clip mask is not its
\* first child
IsClippedWitness ==
    /\ ret.op = "isClipped" /\ ret.flag
    /\ Len(children[ret.node]) >= 2
    /\ ~clipMask[children[ret.node][1]]

\* C3: a call of _getClipItems() that follows a call of it on the same group
\* returns the same items, does not scan the children and changes nothing.
GetClipItemsIdempotent ==
    [][(ret.op = "_getClipItems" /\ ret'.op = "_getClipItems" /\ ret'.node = ret.node)
        => (ret'.items = ret.items /\ ~ret'.flag /\ UNCHANGED treeVars)]_vars

\* _getClipItems() has answered from a cache that holds an item
GetClipItemsWitness ==
    ret.op = "_getClipItems" /\ ~ret.flag /\ Len(ret.items) >= 1

\* C4: setClipped(flag) sets the clipMask of the first child and of no other
\* item and leaves the children lists alone; on a group without children it
\* changes nothing, and the group stays unclipped.
SetClippedFirstChildOnly ==
    [][ret'.op = "setClipped" =>
        LET g == ret'.node
            kids == children[g]
        IN  /\ children' = children /\ parent' = parent
            /\ kids # <<>> => clipMask' = [clipMask EXCEPT ![kids[1]] = ret'.flag]
            /\ kids = <<>> =>
                  /\ clipMask' = clipMask
                  /\ clipItems' = clipItems
                  /\ GetClipItems(clipItems'[g], children'[g], clipMask').items = <<>>]_vars

\* setClipped(true) has been called on a group with two children
SetClippedWitness ==
    /\ ret.op = "setClipped" /\ ret.flag
    /\ Len(children[ret.node]) >= 2
    /\ clipMask[children[ret.node][1]] /\ ~clipMask[children[ret.node][2]]

\* C5: the activations of draw that hold a canvas hold different ones, and
\* each of these canvases is handed out, so that getCanvas cannot give it to
\* anyone else.
NoSurfaceShared ==
    /\ \A i, j \in Holding : i # j => stack[i].tempCanvas # stack[j].tempCanvas
    /\ \A i \in Holding : stack[i].tempCanvas \in pool.live

\* the draw of a clipped group runs inside the draw of a clipped group, both
\* on canvases of one size
NestedClipWitness ==
    /\ Len(stack) >= 2
    /\ stack[1].tempCanvas # NoCanvas /\ stack[2].tempCanvas # NoCanvas
    /\ CanvasSize(stack[1].bounds) = CanvasSize(stack[2].bounds)

\* C6: when no draw is running, no canvas is handed out.
AllSurfacesReleased ==
    status # "drawing" => pool.live = {}

\* C7: as long as no draw was aborted and no clipped group lies within a
\* clipped group, the pool has made at most one canvas of a size; and the
\* activations that hold a canvas hold as many canvases as they are, all of
\* them handed out.
NestedClip ==
    \E g, h \in Groups : g \in Ancestors(h, parent) /\ HasClipChild(g) /\ HasClipChild(h)
PoolReuse ==
    /\ (~everAborted /\ ~NestedClip) =>
          \A c, d \in 1..Len(pool.size) : c # d => pool.size[c] # pool.size[d]
    /\ Cardinality({stack[i].tempCanvas : i \in Holding}) = Cardinality(Holding)
    /\ Cardinality(Holding) <= Cardinality(pool.live)

\* a later draw has been given the canvas an earlier draw returned
PoolReuseWitness ==
    /\ ~everAborted /\ ~NestedClip /\ Len(pool.size) = 1
    /\ \E k \in 1..Len(log) : log[k].ev = "getCanvas" /\ log[k].pass = "reused"

\* C8: the draw of a group that has a clip mask and stroke bounds of zero
\* width or height returns at once: no canvas is taken, nothing is drawn, and
\* param.offset stays.
DegenerateDrawsNothing ==
    [][(/\ status = "drawing" /\ Top.pc = "start" /\ HasClipChild(Top.node)
        /\ (Top.bounds.width = 0 \/ Top.bounds.height = 0))
        => /\ stack' = SubSeq(stack, 1, Len(stack) - 1)
           /\ pool' = pool /\ log' = log /\ paramOffset' = paramOffset
           /\ children' = children /\ clipMask' = clipMask]_vars

\* the draw of a clipped group with empty bounds has returned within the draw
\* of a clipped group
DegenerateWitness ==
    /\ Len(stack) = 1 /\ stack[1].tempCanvas # NoCanvas
    /\ Len(log) >= 2 /\ log[Len(log)].ev = "Item.draw"
    /\ log[Len(log)].item \in Groups /\ HasClipChild(log[Len(log)].item)

\* C9: a draw of a group without clip mask that has returned took no canvas
\* and called Item.draw once for every child, in the order of the children
\* list, with the ctx the group was given.
Drawn(g) ==
    g = ret.node \/ \E k \in 1..Len(log) : log[k].ev = "Item.draw" /\ log[k].item = g
CtxGiven(g) ==
    IF g = ret.node THEN Target
    ELSE log[CHOOSE k \in 1..Len(log) : log[k].ev = "Item.draw" /\ log[k].item = g].ctx
UnclippedDrawsDirect ==
    status = "returned" =>
        \A g \in Groups :
            (Drawn(g) /\ ~HasClipChild(g)) =>
                /\ Calls(g, "clip") = <<>>
                /\ ItemsOf(Calls(g, "regular")) = children[g]
                /\ \A k \in 1..Len(Calls(g, "regular")) :
                       Calls(g, "regular")[k].ctx = CtxGiven(g)
                /\ \A k \in 1..Len(log) : log[k].by = g => log[k].ev = "Item.draw"

\* the draw of an unclipped group with two children has returned
UnclippedWitness ==
    /\ status = "returned" /\ ~HasClipChild(ret.node)
    /\ Len(children[ret.node]) >= 2 /\ Len(log) >= 2

\* C10: at every moment of a draw the clip masks a group has drawn are the
\* first of its masked children, in list order, and the other children it
\* has drawn are the first of its unmasked children, in list order.
DrawsInListOrder ==
    \A g \in Groups :
        /\ IsPrefix(ItemsOf(Calls(g, "clip")), MaskedChildren(g))
        /\ IsPrefix(ItemsOf(Calls(g, "regular")), PlainChildren(g))

\* a group has drawn two clip masks
ListOrderWitness ==
    \E g \in Groups : Len(Calls(g, "clip")) >= 2

\* C11: a clipped group with stroke bounds (x, y, w, h), whole or fractional,
\* asks for a canvas of size (ceil(w) + 1, ceil(h) + 1), places it at
\* (floor(x), floor(y)), and draws it back onto the parent at that same
\* offset.  floor(v) is the whole number f with f <= v < f + 1, ceil(v) the
\* whole number c with c - 1 < v <= c; a whole number is a multiple of Unit.
IsFloorOf(f, v) == f % Unit = 0 /\ f <= v /\ v < f + Unit
IsCeilOf(c, v) == c % Unit = 0 /\ c - Unit < v /\ v <= c
PaddedSurface ==
    /\ \A i \in Holding :
          LET fr == stack[i]
          IN  /\ IsFloorOf(fr.itemOffset[1], fr.bounds.x)
              /\ IsFloorOf(fr.itemOffset[2], fr.bounds.y)
              /\ \E k \in 1..Len(log) :
                    /\ log[k].ev = "getCanvas" /\ log[k].by = fr.node
                    /\ log[k].item = fr.tempCanvas
                    /\ log[k].at = fr.itemOffset
                    /\ IsCeilOf(log[k].size[1] - Unit, fr.bounds.width)
                    /\ IsCeilOf(log[k].size[2] - Unit, fr.bounds.height)
                    /\ pool.size[fr.tempCanvas] = log[k].size
    /\ \A k \in 1..Len(log) :
          log[k].ev = "drawImage" =>
              \E j \in 1..(k - 1) :
                  /\ log[j].ev = "getCanvas" /\ log[j].by = log[k].by
                  /\ log[j].item = log[k].item
                  /\ log[j].at = log[k].at

\* a group with fractional bounds holds its canvas while the canvas of a
\* clipped group within it has been drawn back
PaddedSurfaceWitness ==
    \E i \in Holding :
        /\ stack[i].bounds.x % Unit # 0 /\ stack[i].bounds.width % Unit # 0
        /\ stack[i].bounds.y < 0
        /\ \E k \in 1..Len(log) : log[k].ev = "drawImage"

\* C12: when getCanvas fails in the draw of a clipped group, the error leaves
\* every activation of draw and reaches the caller of the top-level draw;
\* that group has drawn none of its children, the step draws nothing onto
\* any canvas, and afterwards no canvas is handed out.  Draws that follow an
\* earlier error are left aside.
CheckoutFailureFrees ==
    [][(status = "drawing" /\ Top.pc = "start" /\ status' = "aborted" /\ ~everAborted) =>
          /\ stack' = <<>>
          /\ log' = log
          /\ \A k \in 1..Len(log') :
                log'[k].by = Top.node => log'[k].ev \notin {"Item.draw", "drawImage"}
          /\ pool'.live = {}]_vars

\* C13: a notification started at an item reaches that item, then its parent,
\* and so on along the parent links; it reaches no item twice and ends at
\* an item without parent.  On the items it reaches, and on no other, it
\* deletes the caches its flags name: the cached bounds for GEOMETRY,
\* HIERARCHY or CLIPPING, the cached clip items of a group for HIERARCHY or
\* CLIPPING - after which that cache is absent on every group reached.
NotificationClimbsToRoot ==
    [][ret'.op = "_changed" =>
          LET w == ret'.items
              F == ret'.flags
              reached == {w[k] : k \in 1..Len(w)}
              bounds == F \cap {"GEOMETRY", "HIERARCHY", "CLIPPING"} # {}
              clips == F \cap {"HIERARCHY", "CLIPPING"} # {}
          IN  /\ Len(w) >= 1 /\ w[1] = ret'.node
              /\ \A k \in 1..(Len(w) - 1) : w[k + 1] = parent[w[k]]
              /\ parent[w[Len(w)]] = NoParent
              /\ \A j, k \in 1..Len(w) : j # k => w[j] # w[k]
              /\ \A n \in Nodes :
                    cachedBounds'[n] = (cachedBounds[n] /\ ~(n \in reached /\ bounds))
              /\ \A g \in Groups :
                    IF g \in reached /\ clips
                    THEN ~clipItems'[g].present
                    ELSE clipItems'[g] = clipItems[g]]_vars

\* a HIERARCHY or CLIPPING notification has climbed from a leaf through two
\* groups, and none of the three has a cache left
NotificationWitness ==
    /\ ret.op = "_changed" /\ ret.flags \cap {"HIERARCHY", "CLIPPING"} # {}
    /\ Len(ret.items) >= 3 /\ ret.node \in Leaves
    /\ \A k \in 1..Len(ret.items) :
          /\ ~cachedBounds[ret.items[k]]
          /\ ret.items[k] \in Groups => ~clipItems[ret.items[k]].present

\* C14: every item is in the children list of at most one group, at most
\* once; its parent is that group, and it has no parent when it is in no
\* children list.
Places(n) ==
    {p \in Groups \X (1..NumNodes) : p[2] <= Len(children[p[1]]) /\ children[p[1]][p[2]] = n}
AtMostOneParent ==
    \A n \in Nodes :
        /\ Cardinality(Places(n)) <= 1
        /\ \A p \in Places(n) : parent[n] = p[1]
        /\ Places(n) = {} <=> parent[n] = NoParent

\* every item but one is a child, one group lies within the other, and the
\* last addChildren was refused
AtMostOneParentWitness ==
    /\ Cardinality({n \in Nodes : parent[n] # NoParent}) = NumNodes - 1
    /\ \E g \in Groups : parent[g] \in Groups
    /\ ret.op = "addChildren" /\ ret.error

StyleChangeReach ==
    [][ret'.op \in StyleSetters =>
          LET n == ret'.node
              above == Ancestors(n, parent)
          IN  IF ret'.op \in {"setFontSize", "setLeading", "setFont"}
              THEN /\ "GEOMETRY" \in ret'.flags
                   /\ \A m \in above \cup {n} : ~cachedBounds'[m]
              ELSE /\ "GEOMETRY" \notin ret'.flags
                   /\ \A m \in above : cachedBounds'[m] = cachedBounds[m]
                   /\ clipItems' = clipItems]_vars

\* the font of a text item within two groups has been set: the three have
\* no cached bounds, and a group above the item has its cached clip items
StyleChangeWitness ==
    /\ ret.op = "setFont" /\ Cardinality(Ancestors(ret.node, parent)) = 2
    /\ \A m \in Ancestors(ret.node, parent) \cup {ret.node} : ~cachedBounds[m]
    /\ \E g \in Ancestors(ret.node, parent) : clipItems[g].present

\* C17: on a group with a child, whatever the clipMask of its children,
\* isClipped() called right after setClipped(c) returns c.
ClippedRoundTrip ==
    [][(/\ ret.op = "setClipped" /\ ret'.op = "isClipped" /\ ret'.node = ret.node
        /\ children[ret.node] # <<>>)
        => ret'.flag = ret.flag]_vars

\* C17, amended: on a group with a child, isClipped() called right after
\* setClipped(true) returns true; called right after setClipped(false) it
\* returns true when a child other than the first is a clip mask and false
\* otherwise.
ClippedRoundTripFirstChild ==
    [][(/\ ret.op = "setClipped" /\ ret'.op = "isClipped" /\ ret'.node = ret.node
        /\ children[ret.node] # <<>>)
        => LET kids == children[ret.node]
           IN  ret'.flag = (ret.flag \/ \E k \in 2..Len(kids) : clipMask[kids[k]])]_vars

\* setClipped(false) has been called on a group whose second child is a clip
\* mask: the cached clip items are gone and the first child is no mask
ClippedRoundTripWitness ==
    /\ ret.op = "setClipped" /\ ~ret.flag
    /\ Len(children[ret.node]) >= 2
    /\ ~clipMask[children[ret.node][1]] /\ clipMask[children[ret.node][2]]
    /\ ~clipItems[ret.node].present

\* C18: after every call of Base.splice the entry at position i of the list
\* has _index i, an item that is not in the list has no _index, and the call
\* has returned the entries it took out: the list before the call is a
\* front, the returned entries and a back, and the list after it is that
\* front, the entries put in and that back.
SpliceKeepsIndices ==
    [][base'.call.op = "splice" =>
          LET old == base.list
              new == base'.list
              out == base'.call.removed
          IN  /\ \A k \in 1..Len(new) : base'.index[new[k]] = k - 1
              /\ \A it \in Items : it \notin Range(new) => base'.index[it] = NoIndex
              /\ \E a \in 0..Len(old) :
                    /\ a + Len(out) <= Len(old)
                    /\ SubSeq(old, a + 1, a + Len(out)) = out
                    /\ SubSeq(new, 1, a) = SubSeq(old, 1, a)
                    /\ LET back == Len(old) - a - Len(out)
                       IN  /\ back <= Len(new) - a
                           /\ SubSeq(new, Len(new) - back + 1, Len(new))
                                = SubSeq(old, Len(old) - back + 1, Len(old))]_vars

\* C19: Base.equals on two arrays returns, and returns true exactly when the
\* arrays have the same length and equal elements at every position.
EqualsComparesElements ==
    base.call.op = "equals" =>
        LET a == base.call.obj1.elems
            b == base.call.obj2.elems
        IN  base.call.value =
                IF Len(a) = Len(b) /\ \A k \in 1..Len(a) : a[k] = b[k]
                THEN "true" ELSE "false"

\* C20: the steps a clipped group has made in a draw come in this order: it
\* takes its canvas first; it draws its clip masks, all of them, before it
\* sets the compositing operation; it sets the operation before it draws
\* any other child; it draws the canvas onto its parent after all the other
\* children are drawn; and it returns the canvas after that.
StepRank(e) ==
    CASE e.ev = "getCanvas" -> 1
      [] e.ev = "Item.draw" /\ e.pass = "clip" -> 2
      [] e.ev = "compositing" -> 3
      [] e.ev = "Item.draw" /\ e.pass = "regular" -> 4
      [] e.ev = "drawImage" -> 5
      [] e.ev = "returnCanvas" -> 6
      [] OTHER -> 0
StepsOf(g) == SelectSeq(log, LAMBDA e : e.by = g /\ StepRank(e) # 0)
HasStep(g, ev) == \E k \in 1..Len(StepsOf(g)) : StepsOf(g)[k].ev = ev
ClippedDrawOrder ==
    \A g \in Groups :
        HasStep(g, "getCanvas") =>
            LET mine == StepsOf(g)
            IN  /\ mine[1].ev = "getCanvas"
                /\ \A j, k \in 1..Len(mine) :
                      j < k => /\ StepRank(mine[j]) <= StepRank(mine[k])
                               /\ StepRank(mine[j]) = StepRank(mine[k])
                                     => mine[j].ev = "Item.draw"
                /\ HasStep(g, "compositing") =>
                      ItemsOf(Calls(g, "clip")) = MaskedChildren(g)
                /\ HasStep(g, "drawImage") =>
                      /\ HasStep(g, "compositing")
                      /\ ItemsOf(Calls(g, "regular")) = PlainChildren(g)
                /\ HasStep(g, "returnCanvas") => HasStep(g, "drawImage")

\* the draw of a clipped group with a clip mask and another child has
\* returned, all six kinds of step made
ClippedDrawOrderWitness ==
    /\ status = "returned"
    /\ \E g \in Groups :
          /\ HasStep(g, "getCanvas") /\ HasStep(g, "returnCanvas")
          /\ Len(Calls(g, "clip")) >= 1 /\ Len(Calls(g, "regular")) >= 1

\* C21: in one draw of a clipped group no child is drawn twice: a clip mask
\* is drawn in the pass over the clip items only, another child in the pass
\* over the children only, the group draws nothing that is not its child,
\* and when the canvas is drawn back every child has been drawn once.
TimesDrawn(g, n) ==
    Cardinality({k \in 1..Len(log) :
                    log[k].ev = "Item.draw" /\ log[k].by = g /\ log[k].item = n})
EachChildDrawnOnce ==
    \A g \in Groups :
        HasStep(g, "getCanvas") =>
            /\ \A k \in 1..Len(log) :
                  (log[k].ev = "Item.draw" /\ log[k].by = g) =>
                      /\ log[k].item \in Range(children[g])
                      /\ log[k].pass = IF clipMask[log[k].item] THEN "clip" ELSE "regular"
            /\ \A n \in Range(children[g]) :
                  /\ TimesDrawn(g, n) <= 1
                  /\ HasStep(g, "drawImage") => TimesDrawn(g, n) = 1

\* a clipped group with a clip mask and another child has drawn its canvas
\* back, each of the two children drawn once
EachChildDrawnOnceWitness ==
    \E g \in Groups :
        /\ HasStep(g, "drawImage") /\ Len(children[g]) = 2
        /\ clipMask[children[g][1]] # clipMask[children[g][2]]
        /\ \A n \in Range(children[g]) : TimesDrawn(g, n) = 1

\* C22: when the draw of a clipped group returns, param.offset is what it was
\* when that draw was entered.
OffsetRestored ==
    [][(/\ status = "drawing" /\ Top.pc = "regular" /\ ~InLoop(Top)
        /\ Top.tempCanvas # NoCanvas /\ Len(stack') = Len(stack) - 1)
        => paramOffset' = Top.prevOffset]_vars

\* the drawing state of a 2D context that Group.draw touches: the translation
\* and the matrices applied, the compositing operator, and the states saved
FreshState ==
    [cur |-> [at |-> Origin, matrices |-> <<>>, comp |-> "source-over"],
     saved |-> <<>>]
StateCalls == {"save", "restore", "translate", "applyToContext", "compositing"}
CtxApply(s, e) ==
    CASE e.ev = "save" -> [s EXCEPT !.saved = Append(@, s.cur)]
      [] e.ev = "restore" ->
            IF s.saved = <<>> THEN s
            ELSE [cur |-> s.saved[Len(s.saved)],
                  saved |-> SubSeq(s.saved, 1, Len(s.saved) - 1)]
      [] e.ev = "translate" ->
            [s EXCEPT !.cur.at = <<@[1] + e.at[1], @[2] + e.at[2]>>]
      [] e.ev = "applyToContext" -> [s EXCEPT !.cur.matrices = Append(@, e.item)]
      [] e.ev = "compositing" -> [s EXCEPT !.cur.comp = "source-in"]
      [] OTHER -> s
\* the state of context c after the first k calls of the record
RECURSIVE CtxState(_, _)
CtxState(c, k) ==
    IF k = 0 THEN FreshState
    ELSE IF log[k].ctx = c /\ log[k].ev \in StateCalls
         THEN CtxApply(CtxState(c, k - 1), log[k])
         ELSE CtxState(c, k - 1)
\* the call that checked out the canvas returned by call k of the record
CheckoutOf(k) ==
    CHOOSE j \in 1..k :
        /\ log[j].ev = "getCanvas" /\ log[j].item = log[k].item
        /\ \A m \in (j + 1)..k : ~(log[m].ev = "getCanvas" /\ log[m].item = log[k].item)

\* when a group returns its canvas to the pool, the drawing state of the
\* context of that canvas (translation, matrices applied, compositing operator
\* and the depth of saved states) is the one it had when the canvas was
\* checked out, and the drawing state of the context the group drew the canvas
\* onto is the one it had at that moment too
ReturnedAsCheckedOut ==
    \A k \in 1..Len(log) :
        log[k].ev = "returnCanvas" =>
            LET j == CheckoutOf(k)
            IN  /\ CtxState(log[k].item, k) = CtxState(log[k].item, j)
                /\ \A d \in j..k :
                      (log[d].ev = "drawImage" /\ log[d].by = log[k].by) =>
                          CtxState(log[d].ctx, k) = CtxState(log[d].ctx, j)

\* C23: every canvas a draw has checked out is returned to the pool in the
\* drawing state it was checked out with: once the draw is left, each canvas
\* taken has been returned and the saves on its context are matched by
\* restores, and a canvas that is returned has the state of its checkout,
\* the context it was drawn onto unchanged.
SurfaceStateKept ==
    /\ ReturnedAsCheckedOut
    /\ status # "drawing" =>
          \A j \in 1..Len(log) :
              log[j].ev = "getCanvas" =>
                  /\ \E k \in j..Len(log) :
                        log[k].ev = "returnCanvas" /\ log[k].item = log[j].item
                  /\ CtxState(log[j].item, Len(log)) = CtxState(log[j].item, j)

\* C24: a notification that carries only GEOMETRY and/or STYLE leaves the
\* clip-items cache of every group as it was, present with the same items or
\* absent; a cache that was present and is gone after a notification was
\* cleared by one that carries HIERARCHY or CLIPPING.
GeometryStyleKeepsCache ==
    [][(ret'.op \in {"_changed"} \cup StyleSetters) =>
          /\ ret'.flags \subseteq {"GEOMETRY", "STYLE"} => clipItems' = clipItems
          /\ \A g \in Groups :
                (clipItems[g].present /\ ~clipItems'[g].present) =>
                    ret'.flags \cap {"HIERARCHY", "CLIPPING"} # {}]_vars

\* a notification with both GEOMETRY and STYLE has reached a group whose
\* cache holds a clip item
GeometryStyleWitness ==
    /\ ret.op = "_changed" /\ ret.flags = {"GEOMETRY", "STYLE"}
    /\ \E k \in 1..Len(ret.items) :
          /\ ret.items[k] \in Groups
          /\ clipItems[ret.items[k]].present
          /\ clipItems[ret.items[k]].items # <<>>

\* C25: for stroke bounds of positive width and height, the canvas taken,
\* placed at the offset, covers the bounds: the offset is not right of or
\* below the top left corner of the bounds, and the offset plus the size of
\* the canvas is not left of or above their bottom right corner.
SurfaceCoversBounds ==
    \A i \in Holding :
        LET fr == stack[i]
            size == pool.size[fr.tempCanvas]
        IN  (fr.bounds.width > 0 /\ fr.bounds.height > 0) =>
                /\ fr.itemOffset[1] <= fr.bounds.x
                /\ fr.itemOffset[2] <= fr.bounds.y
                /\ fr.itemOffset[1] + size[1] >= fr.bounds.x + fr.bounds.width
                /\ fr.itemOffset[2] + size[2] >= fr.bounds.y + fr.bounds.height

\* a canvas is held for bounds with a fractional corner left of and above
\* zero, which a canvas one unit smaller would not cover
SurfaceCoversBoundsWitness ==
    \E i \in Holding :
        LET fr == stack[i]
            size == pool.size[fr.tempCanvas]
        IN  /\ fr.bounds.x < 0 /\ fr.bounds.y < 0
            /\ fr.bounds.x % Unit # 0 /\ fr.bounds.y % Unit # 0
            /\ fr.bounds.width > 0 /\ fr.bounds.height > 0
            /\ fr.itemOffset[1] + size[1] - Unit < fr.bounds.x + fr.bounds.width
            /\ fr.itemOffset[2] + size[2] - Unit < fr.bounds.y + fr.bounds.height

\* C26: the anchor point of a PointText follows its transforms: _point is the
\* point the text was made with, with every matrix applied since applied to it
\* in order, and getPoint() called right after setPoint(p) returns a point
\* with the coordinates of p.
PointFollowsTransforms ==
    [][/\ text'.point = ApplyAll(text'.first, text'.applied)
       /\ (ret.op = "setPoint" /\ ret'.op = "getPoint") => ret'.items = ret.items]_vars

====
